---- MODULE Spec2Model ----
(***************************************************************************)
(* Model of the hike-listing application in main.py: the field extractors  *)
(* (parse_date, parse_time, parse_distance, parse_dog, parse_pace), the    *)
(* block parser parse_block and the structured creation handler            *)
(* create_event.                                                           *)
(*                                                                         *)
(* Text is a sequence of one-character strings.  The characters that occur *)
(* are the ones of the token sets below: the decimal digits, ':', '-',     *)
(* '/', '.', the space, the tab, the line breaks LF and CR and a few       *)
(* letters.  Every string operation of the source (strip, lower, split,    *)
(* splitlines, startswith, the regular expressions behind strptime and     *)
(* re.findall) is computed character by character on such sequences.       *)
(***************************************************************************)
EXTENDS Integers, Sequences, FiniteSets, TLC

VARIABLES
    pc,        \* position of the call in progress
    s,         \* argument of the extractor call (parse_date / parse_time)
    result,    \* value returned by the extractor call
    raw,       \* argument of parse_block
    lines,     \* parse_block: the stripped lines that contain a colon
    i,         \* parse_block: number of lines already processed by the loop
    key,       \* parse_block: key of the line processed last
    val,       \* parse_block: val of the line processed last
    parsed,    \* parse_block: the dict parsed
    errors,    \* parse_block: the dict errors
    events,    \* rows of the Event table, in insertion order
    req,       \* form fields of the last create_event request
    status     \* HTTP status answered to the last create_event request

vars == <<pc, s, result, raw, lines, i, key, val, parsed, errors, events, req, status>>

(***************************************************************************)
(* Bounds                                                                  *)
(***************************************************************************)
MaxPad == 1       \* surrounding whitespace characters tried on each side of an extractor input
MaxLines == 2     \* lines of a block
MaxEvents == 2    \* create_event calls that store a row

(***************************************************************************)
(* Characters and Python's str methods                                     *)
(***************************************************************************)
Digit == {"0", "1", "2", "3", "4", "5", "6", "7", "8", "9"}
Digit19 == Digit \ {"0"}
Whitespace == {" ", "\t", "\n", "\r"}
LineBreak == {"\n", "\r"}

DigitVal(c) ==
    CASE c = "0" -> 0 [] c = "1" -> 1 [] c = "2" -> 2 [] c = "3" -> 3
      [] c = "4" -> 4 [] c = "5" -> 5 [] c = "6" -> 6 [] c = "7" -> 7
      [] c = "8" -> 8 [] c = "9" -> 9

\* str.lower on one character
UpperLetters ==
    <<"A", "B", "C", "D", "E", "F", "G", "H", "I", "J", "K", "L", "M",
      "N", "O", "P", "Q", "R", "S", "T", "U", "V", "W", "X", "Y", "Z">>
LowerLetters ==
    <<"a", "b", "c", "d", "e", "f", "g", "h", "i", "j", "k", "l", "m",
      "n", "o", "p", "q", "r", "s", "t", "u", "v", "w", "x", "y", "z">>

UpperSet == { UpperLetters[k] : k \in 1..26 }

LowerOf == [c \in UpperSet |-> LowerLetters[CHOOSE k \in 1..26 : UpperLetters[k] = c]]

LowerChar(c) == IF c \in UpperSet THEN LowerOf[c] ELSE c

Lower(str) == [k \in 1..Len(str) |-> LowerChar(str[k])]

RECURSIVE LStrip(_)
LStrip(str) ==
    IF str # <<>> /\ Head(str) \in Whitespace THEN LStrip(Tail(str)) ELSE str

RECURSIVE RStrip(_)
RStrip(str) ==
    IF str # <<>> /\ str[Len(str)] \in Whitespace
    THEN RStrip(SubSeq(str, 1, Len(str) - 1)) ELSE str

Strip(str) == RStrip(LStrip(str))

\* str.replace(" ", ""): only the space character is removed
RECURSIVE RemoveSpaces(_)
RemoveSpaces(str) ==
    IF str = <<>> THEN <<>>
    ELSE IF Head(str) = " " THEN RemoveSpaces(Tail(str))
    ELSE <<Head(str)>> \o RemoveSpaces(Tail(str))

StartsWith(str, prefix) ==
    /\ Len(prefix) <= Len(str)
    /\ SubSeq(str, 1, Len(prefix)) = prefix

\* int(str) of a run of digits, surrounding whitespace ignored
RECURSIVE IntOfDigits(_)
IntOfDigits(str) ==
    IF str = <<>> THEN 0
    ELSE 10 * IntOfDigits(SubSeq(str, 1, Len(str) - 1)) + DigitVal(str[Len(str)])

IntOf(str) == IntOfDigits(Strip(str))

(***************************************************************************)
(* Values: None and the typed values stored in ParsedFields                *)
(***************************************************************************)
None == [tag |-> "None"]
Date(y, m, d) == [tag |-> "date", year |-> y, month |-> m, day |-> d]
Time(h, m) == [tag |-> "time", hour |-> h, minute |-> m]
Str(str) == [tag |-> "str", v |-> str]
Bool(b) == [tag |-> "bool", v |-> b]

(***************************************************************************)
(* The regular expressions of _strptime.  A regular expression is a        *)
(* sequence of groups, a group a sequence of alternatives tried in order,  *)
(* an alternative a sequence of character sets.  re.match is a             *)
(* backtracking match anchored at the start of the string.                 *)
(***************************************************************************)
NoMatch == [ok |-> FALSE, end |-> 0, caps |-> <<>>]

MatchAlt(alt, str, pos) ==
    /\ pos + Len(alt) - 1 <= Len(str)
    /\ \A k \in 1..Len(alt) : str[pos + k - 1] \in alt[k]

RECURSIVE MatchFrom(_, _, _, _), TryAlts(_, _, _, _, _)
MatchFrom(re, gi, str, pos) ==
    IF gi > Len(re) THEN [ok |-> TRUE, end |-> pos, caps |-> <<>>]
    ELSE TryAlts(re, gi, 1, str, pos)

TryAlts(re, gi, ai, str, pos) ==
    IF ai > Len(re[gi]) THEN NoMatch
    ELSE LET alt == re[gi][ai]
         IN  IF MatchAlt(alt, str, pos)
             THEN LET r == MatchFrom(re, gi + 1, str, pos + Len(alt))
                  IN  IF r.ok
                      THEN [ok |-> TRUE, end |-> r.end,
                            caps |-> <<SubSeq(str, pos, pos + Len(alt) - 1)>> \o r.caps]
                      ELSE TryAlts(re, gi, ai + 1, str, pos)
             ELSE TryAlts(re, gi, ai + 1, str, pos)

Lit(c) == << <<{c}>> >>

\* the directives of TimeRE
RE_Y == << <<Digit, Digit, Digit, Digit>> >>
\* variant of RE_m: the month takes exactly two digits
RE_m_two_digits == << <<{"1"}, {"0", "1", "2"}>>, <<{"0"}, Digit19>> >>

RE_m == << <<{"1"}, {"0", "1", "2"}>>, <<{"0"}, Digit19>>, <<Digit19>> >>
RE_d == << <<{"3"}, {"0", "1"}>>, <<{"1", "2"}, Digit>>, <<{"0"}, Digit19>>,
           <<Digit19>>, <<{" "}, Digit19>> >>
RE_H == << <<{"2"}, {"0", "1", "2", "3"}>>, <<{"0", "1"}, Digit>>, <<Digit>> >>
RE_I == << <<{"1"}, {"0", "1", "2"}>>, <<{"0"}, Digit19>>, <<Digit19>> >>
RE_M == << <<{"0", "1", "2", "3", "4", "5"}, Digit>>, <<Digit>> >>
\* re.IGNORECASE
RE_p == << <<{"a", "A"}, {"m", "M"}>>, <<{"p", "P"}, {"m", "M"}>> >>

\* re.match followed by the "unconverted data remains" test
FullMatch(re, str) ==
    LET r == MatchFrom(re, 1, str, 1)
    IN  IF r.ok /\ r.end = Len(str) + 1 THEN r ELSE NoMatch

(***************************************************************************)
(* parse_date                                                              *)
(***************************************************************************)
IsLeap(y) == y % 4 = 0 /\ (y % 100 # 0 \/ y % 400 = 0)

DaysInMonth(y, m) ==
    IF m = 2 THEN (IF IsLeap(y) THEN 29 ELSE 28)
    ELSE IF m \in {4, 6, 9, 11} THEN 30 ELSE 31

\* datetime.strptime(str, "%Y-%m-%d").date(), None standing for ValueError
strptime_date(str) ==
    LET r == FullMatch(<<RE_Y, Lit("-"), RE_m, Lit("-"), RE_d>>, str)
    IN  IF ~r.ok THEN None
        ELSE LET y == IntOf(r.caps[1])
                 m == IntOf(r.caps[3])
                 d == IntOf(r.caps[5])
             IN  IF y >= 1 /\ d <= DaysInMonth(y, m) THEN Date(y, m, d) ELSE None

parse_date(str) == strptime_date(Strip(str))

(***************************************************************************)
(* parse_time                                                              *)
(***************************************************************************)
\* datetime.strptime(str, fmt).time() for the three formats of parse_time
strptime_time(str, fmt) ==
    IF fmt = "%H:%M"
    THEN LET r == FullMatch(<<RE_H, Lit(":"), RE_M>>, str)
         IN  IF r.ok THEN Time(IntOf(r.caps[1]), IntOf(r.caps[3])) ELSE None
    ELSE IF fmt = "%I:%M%p"
    THEN LET r == FullMatch(<<RE_I, Lit(":"), RE_M, RE_p>>, str)
         IN  IF ~r.ok THEN None
             ELSE LET h == IntOf(r.caps[1])
                      pm == Lower(r.caps[4]) = <<"p", "m">>
                  IN  Time(IF pm THEN (IF h # 12 THEN h + 12 ELSE h)
                                 ELSE (IF h = 12 THEN 0 ELSE h),
                           IntOf(r.caps[3]))
    ELSE LET r == FullMatch(<<RE_I, Lit(":"), RE_M>>, str)
         IN  IF ~r.ok THEN None
             ELSE LET h == IntOf(r.caps[1])
                  IN  Time(IF h = 12 THEN 0 ELSE h, IntOf(r.caps[3]))

\* variant of TimeFormats: the 12-hour format without meridiem is tried first
TimeFormats_12first == <<"%I:%M", "%I:%M%p", "%H:%M">>

TimeFormats == <<"%H:%M", "%I:%M%p", "%I:%M">>

RECURSIVE TryFormats(_, _, _)
TryFormats(str, fmts, k) ==
    IF k > Len(fmts) THEN None
    ELSE LET t == strptime_time(str, fmts[k])
         IN  IF t # None THEN t ELSE TryFormats(str, fmts, k + 1)

parse_time(str) ==
    LET stripped == Lower(Strip(str))
    IN  IF stripped = <<>> THEN None
        ELSE TryFormats(RemoveSpaces(stripped), TimeFormats, 1)

(***************************************************************************)
(* parse_distance, parse_dog, parse_pace                                   *)
(***************************************************************************)
\* a decimal value mantissa / 10^scale, without trailing fractional zeros
RECURSIVE Float(_, _, _)
Float(neg, mantissa, scale) ==
    IF scale > 0 /\ mantissa % 10 = 0 THEN Float(neg, mantissa \div 10, scale - 1)
    ELSE [tag |-> "float", neg |-> neg /\ mantissa # 0,
          mantissa |-> mantissa, scale |-> scale]

\* the longest run of digits at the start of str
RECURSIVE DigitRun(_)
DigitRun(str) ==
    IF str # <<>> /\ Head(str) \in Digit THEN <<Head(str)>> \o DigitRun(Tail(str))
    ELSE <<>>

\* float(str) for str made of digits, '.', a sign and whitespace; None stands
\* for ValueError (exponents, underscores, inf and nan do not occur)
float(str) ==
    LET t == Strip(str)
        signed == t # <<>> /\ Head(t) \in {"+", "-"}
        u == IF signed THEN Tail(t) ELSE t
        ip == DigitRun(u)
        rest == SubSeq(u, Len(ip) + 1, Len(u))
        dotted == rest # <<>> /\ Head(rest) = "."
        fp == IF dotted THEN DigitRun(Tail(rest)) ELSE <<>>
        used == Len(ip) + (IF dotted THEN 1 + Len(fp) ELSE 0)
    IN  IF used = Len(u) /\ Len(ip) + Len(fp) > 0
        THEN Float(signed /\ Head(t) = "-", IntOfDigits(ip \o fp), Len(fp))
        ELSE None

\* re.findall(r"\d+\.?\d*", str)[0]: the match that starts at the first digit;
\* <<>> stands for IndexError on an empty list
RECURSIVE FirstNumber(_)
FirstNumber(str) ==
    IF str = <<>> THEN <<>>
    ELSE IF Head(str) \notin Digit THEN FirstNumber(Tail(str))
    ELSE LET ip == DigitRun(str)
             rest == SubSeq(str, Len(ip) + 1, Len(str))
         IN  IF rest # <<>> /\ Head(rest) = "."
             THEN ip \o <<".">> \o DigitRun(Tail(rest))
             ELSE ip

parse_distance(str) ==
    IF FirstNumber(str) = <<>> THEN None ELSE float(FirstNumber(str))

parse_dog(str) ==
    LET r == Lower(Strip(str))
    IN  IF r = <<"y", "e", "s">> THEN Bool(TRUE)
        ELSE IF r = <<"n", "o">> THEN Bool(FALSE)
        ELSE None

\* mapping.get(raw, default)
PaceMapping(r, default) ==
    IF r = <<"t", "u", "r", "t", "l", "e">> THEN Str(<<"T", "u", "r", "t", "l", "e">>)
    ELSE IF r = <<"b", "e", "a", "r">> THEN Str(<<"B", "e", "a", "r">>)
    ELSE IF r = <<"m", "o", "o", "s", "e">> THEN Str(<<"M", "o", "o", "s", "e">>)
    ELSE IF r = <<"g", "o", "a", "t">> THEN Str(<<"G", "O", "A", "T">>)
    ELSE default

parse_pace(str) == PaceMapping(Lower(Strip(str)), None)

(***************************************************************************)
(* parse_block                                                             *)
(***************************************************************************)
\* index of the first element of str that is in set, 0 when there is none
RECURSIVE FirstIn(_, _, _)
FirstIn(str, set, k) ==
    IF k > Len(str) THEN 0
    ELSE IF str[k] \in set THEN k
    ELSE FirstIn(str, set, k + 1)

\* str.splitlines(): lines end at LF, CR or CR LF; no empty last line
RECURSIVE SplitLines(_)
SplitLines(str) ==
    IF str = <<>> THEN <<>>
    ELSE LET k == FirstIn(str, LineBreak, 1)
         IN  IF k = 0 THEN <<str>>
             ELSE LET skip == IF str[k] = "\r" /\ k < Len(str) /\ str[k + 1] = "\n"
                              THEN 2 ELSE 1
                  IN  <<SubSeq(str, 1, k - 1)>>
                          \o SplitLines(SubSeq(str, k + skip, Len(str)))

HasColon(line) == FirstIn(line, {":"}, 1) # 0

\* [line.strip() for line in raw.splitlines() if ":" in line]
RECURSIVE StripColonLines(_)
StripColonLines(ls) ==
    IF ls = <<>> THEN <<>>
    ELSE (IF HasColon(Head(ls)) THEN <<Strip(Head(ls))>> ELSE <<>>)
             \o StripColonLines(Tail(ls))

\* index of the last element of str that is in set, 0 when there is none
RECURSIVE LastIn(_, _, _)
LastIn(str, set, k) ==
    IF k < 1 THEN 0
    ELSE IF str[k] \in set THEN k
    ELSE LastIn(str, set, k - 1)

\* variant of SplitColon: the split is at the last colon (line.rsplit(":", 1))
SplitColon_last(line) ==
    LET k == LastIn(line, {":"}, Len(line))
    IN  <<SubSeq(line, 1, k - 1), SubSeq(line, k + 1, Len(line))>>

\* line.split(":", 1) of a line that contains a colon
SplitColon(line) ==
    LET k == FirstIn(line, {":"}, 1)
    IN  <<SubSeq(line, 1, k - 1), SubSeq(line, k + 1, Len(line))>>

\* str.split()[0]: the first whitespace-delimited token, <<>> when there is
\* none (the subscript then raises IndexError)
FirstToken(str) ==
    LET t == LStrip(str)
        k == FirstIn(t, Whitespace, 1)
    IN  IF k = 0 THEN t ELSE SubSeq(t, 1, k - 1)

NoField == "-"

\* the if/elif chain on key: the field the line is stored under
Classify(k) ==
    IF StartsWith(k, <<"o", "r", "g", "a", "n", "i", "z", "e", "r">>) THEN "organizer"
    ELSE IF StartsWith(k, <<"m", "o", "u", "n", "t", "a", "i", "n">>) THEN "mountain"
    ELSE IF StartsWith(k, <<"s", "t", "a", "r", "t">>) THEN "start_date"
    ELSE IF \/ StartsWith(k, <<"a", "r", "r", "i", "v", "e">>) \/ StartsWith(k, <<"a", "r", "r", "i", "v", "a", "l">>)
            \/ StartsWith(k, <<"m", "e", "e", "t">>) \/ StartsWith(k, <<"m", "e", "e", "t", "u", "p">>) THEN "arrive_time"
    ELSE IF \/ StartsWith(k, <<"h", "i", "k", "e">>) \/ StartsWith(k, <<"s", "t", "a", "r", "t", " ", "t", "i", "m", "e">>)
            \/ StartsWith(k, <<"b", "e", "g", "i", "n">>) THEN "hike_time"
    ELSE IF StartsWith(k, <<"t", "r", "a", "i", "l", "h", "e", "a", "d">>) THEN "trailhead"
    ELSE IF StartsWith(k, <<"d", "i", "s", "t", "a", "n", "c", "e">>) THEN "distance_miles"
    ELSE IF StartsWith(k, <<"p", "a", "c", "e">>) THEN "pace"
    ELSE IF StartsWith(k, <<"d", "o", "g">>) THEN "dog_friendly"
    ELSE IF StartsWith(k, <<"f", "b">>) THEN "fb_link"
    ELSE IF StartsWith(k, <<"n", "o", "t", "e", "s">>) THEN "notes"
    ELSE NoField

\* the right-hand side of the assignment in the branch of field f
Extract(f, v) ==
    CASE f = "start_date" -> parse_date(v)
      [] f \in {"arrive_time", "hike_time"} -> parse_time(v)
      [] f = "distance_miles" -> parse_distance(v)
      [] f = "pace" -> parse_pace(v)
      [] f = "dog_friendly" -> parse_dog(v)
      [] f = "fb_link" -> Str(FirstToken(v))
      [] OTHER -> Str(v)

\* val.split()[0] raises IndexError when val has no token
Raises(f, v) == f = "fb_link" /\ FirstToken(v) = <<>>

\* variant of Store: an absent value is not stored (if value is not None)
Store_dropNone(dict, f, value) ==
    IF value = None THEN dict
    ELSE [x \in DOMAIN dict \cup {f} |-> IF x = f THEN value ELSE dict[x]]

\* variant of Store: a field already present is kept (parsed.setdefault)
Store_keepFirst(dict, f, value) ==
    [x \in DOMAIN dict \cup {f} |-> IF x \in DOMAIN dict THEN dict[x] ELSE value]

\* parsed[f] = value
Store(dict, f, value) ==
    [x \in DOMAIN dict \cup {f} |-> IF x = f THEN value ELSE dict[x]]

EmptyDict == [x \in {} |-> None]

KeyOf(line) == Lower(Strip(SplitColon(line)[1]))
ValOf(line) == Strip(SplitColon(line)[2])

\* variant of LoopBody: the chain ends in a plain else that files the line
\* under notes
LoopBody_elseNotes(dict, line) ==
    LET f == Classify(KeyOf(line))
    IN  IF f = NoField THEN Store(dict, "notes", Str(ValOf(line)))
        ELSE Store(dict, f, Extract(f, ValOf(line)))

\* one iteration of the for loop on a dict and a line
LoopBody(dict, line) ==
    LET f == Classify(KeyOf(line))
    IN  IF f = NoField THEN dict ELSE Store(dict, f, Extract(f, ValOf(line)))

LoopRaises(line) == Raises(Classify(KeyOf(line)), ValOf(line))

\* the lines a block is made of
LineSet ==
    { <<"O", "r", "g", "a", "n", "i", "z", "e", "r", ":", " ", "J", "a", "n", "e">>,
      <<"M", "o", "u", "n", "t", "a", "i", "n", ":", " ", "M", "t", " ", "A">>,
      <<"T", "r", "a", "i", "l", "h", "e", "a", "d", ":", "T", "H">>,
      <<"S", "t", "a", "r", "t", ":", " ", "2", "0", "2", "4", "-", "0", "7", "-", "0", "4">>,
      <<"S", "T", "A", "R", "T", ":", "2", "0", "2", "4", "-", "7", "-", "4">>,
      <<"S", "t", "a", "r", "t", ":", " ", "x">>,
      <<"S", "t", "a", "r", "t", " ", "t", "i", "m", "e", ":", " ", "8", ":", "0", "0", "a", "m">>,
      <<"s", "t", "a", "r", "t", " ", "T", "i", "m", "e", ":", " ", "x">>,
      <<"A", "r", "r", "i", "v", "e", ":", " ", "7", ":", "3", "0", "a", "m">>,
      <<"M", "e", "e", "t", ":", " ", "7", ":", "\t", "3", "0">>,
      <<"H", "i", "k", "e", ":", " ", "8", ":", "0", "0">>,
      <<"B", "e", "g", "i", "n", ":", " ", "x">>,
      <<"D", "i", "s", "t", "a", "n", "c", "e", ":", " ", "6", ".", "2", " ", "m">>,
      <<"D", "i", "s", "t", "a", "n", "c", "e", ":", " ", "x">>,
      <<"P", "a", "c", "e", ":", " ", "b", "e", "a", "r">>,
      <<" ", "P", "a", "c", "e", " ", ":", " ", "G", "O", "A", "T", " ">>,
      <<"P", "a", "c", "e", ":", " ", "f", "a", "s", "t">>,
      <<"D", "o", "g", ":", " ", "y", "e", "s">>,
      <<"D", "o", "g", ":", " ", "y">>,
      <<"F", "B", ":", " ", "h", ":", "/", "/", "f", " ", "x">>,
      <<"F", "B", ":">>,
      <<"f", "b", " ", ":", " ">>,
      <<"N", "o", "t", "e", "s", ":", " ", "a", ":", "B">>,
      <<"N", "o", "t", "e", "s", ":">>,
      <<"h", "e", "l", "l", "o">>,
      <<>>,
      <<"B", "r", "i", "n", "g", ":", " ", "x">> }

LineSep == { <<"\n">>, <<"\r", "\n">> }

RECURSIVE Join(_, _)
Join(ls, sep) ==
    IF ls = <<>> THEN <<>>
    ELSE IF Len(ls) = 1 THEN ls[1]
    ELSE ls[1] \o sep \o Join(Tail(ls), sep)

\* the blocks submitted: up to MaxLines lines joined by one kind of line break
Blocks ==
    { Join(ls, sep) : ls \in UNION { [1..n -> LineSet] : n \in 0..MaxLines },
                      sep \in LineSep }

\* fill_form calls parse_block(raw): the two dicts are created and the lines
\* with a colon are collected
parse_block_enter(r) ==
    /\ pc = "idle"
    /\ raw' = r
    /\ lines' = StripColonLines(SplitLines(r))
    /\ i' = 0
    /\ parsed' = EmptyDict
    /\ errors' = EmptyDict
    /\ pc' = "loop"
    /\ UNCHANGED <<s, result, key, val, events, req, status>>

\* variant of parse_block_line: a value the extractor could not read is
\* reported in errors
parse_block_line_reports ==
    /\ pc = "loop"
    /\ i < Len(lines)
    /\ LET line == lines[i + 1]
           f == Classify(KeyOf(line))
       IN  /\ key' = KeyOf(line)
           /\ val' = ValOf(line)
           /\ IF LoopRaises(line)
              THEN /\ pc' = "raised"
                   /\ UNCHANGED <<parsed, i, errors>>
              ELSE /\ parsed' = LoopBody(parsed, line)
                   /\ i' = i + 1
                   /\ pc' = "loop"
                   /\ errors' = IF f # NoField /\ Extract(f, ValOf(line)) = None
                                THEN Store(errors, f, Str(ValOf(line)))
                                ELSE errors
    /\ UNCHANGED <<s, result, raw, lines, events, req, status>>

\* one iteration of the loop over lines
parse_block_line ==
    /\ pc = "loop"
    /\ i < Len(lines)
    /\ LET line == lines[i + 1]
       IN  /\ key' = KeyOf(line)
           /\ val' = ValOf(line)
           /\ IF LoopRaises(line)
              THEN /\ pc' = "raised"
                   /\ UNCHANGED <<parsed, i>>
              ELSE /\ parsed' = LoopBody(parsed, line)
                   /\ i' = i + 1
                   /\ pc' = "loop"
    /\ UNCHANGED <<s, result, raw, lines, errors, events, req, status>>

\* return parsed, errors
parse_block_return ==
    /\ pc = "loop"
    /\ i = Len(lines)
    /\ pc' = "returned"
    /\ UNCHANGED <<s, result, raw, lines, i, key, val, parsed, errors, events, req, status>>

Init ==
    /\ pc = "idle"
    /\ s = <<>>
    /\ result = None
    /\ raw = <<>>
    /\ lines = <<>>
    /\ i = 0
    /\ key = <<>>
    /\ val = <<>>
    /\ parsed = EmptyDict
    /\ errors = EmptyDict
    /\ events = <<>>
    /\ req = EmptyDict
    /\ status = 0

\* POST /add: fill_form hands the submitted text to parse_block
fill_form == pc = "idle" /\ \E r \in Blocks : parse_block_enter(r)

Next ==
    \/ fill_form
    \/ parse_block_line
    \/ parse_block_return

Spec == Init /\ [][Next]_vars

\* parse_block as a function of the list of stripped lines: the loop run to
\* its end, or up to the line on which it raises
RECURSIVE RunLines(_, _)
RunLines(ls, dict) ==
    IF ls = <<>> THEN [raised |-> FALSE, parsed |-> dict]
    ELSE IF LoopRaises(Head(ls)) THEN [raised |-> TRUE, parsed |-> dict]
    ELSE RunLines(Tail(ls), LoopBody(dict, Head(ls)))

(***************************************************************************)
(* The extractors called on their own                                      *)
(***************************************************************************)
\* up to MaxPad characters of surrounding whitespace
Pads == UNION { [1..n -> {" ", "\t"}] : n \in 0..MaxPad }

DateInputs ==
    { l \o y \o sep \o m \o sep \o d \o r :
        l \in Pads, r \in Pads,
        y \in { <<"2", "0", "2", "4">>, <<"2", "0", "2", "3">>, <<"1", "9", "0", "0">>, <<"0", "0", "0", "0">>, <<"2", "4">> },
        sep \in { <<"-">>, <<"/">> },
        m \in { <<"0", "7">>, <<"7">>, <<"0", "2">>, <<"2">>, <<"1", "2">>, <<"1", "3">>, <<"0", "0">> },
        d \in { <<"0", "4">>, <<"4">>, <<" ", "4">>, <<"2", "9">>, <<"3", "0">>, <<"3", "1">>, <<"4", "0">>, <<"0", "0">> } }
    \cup { <<>>, <<"x">>, <<"2", "0", "2", "4", "-", "0", "7", "-", "0", "4", "x">>, <<"2", "0", "2", "4", "-", " ", "7", "-", "0", "4">> } \cup Pads

TimeInputs ==
    { l \o h \o sep \o m \o p \o r :
        l \in Pads, r \in Pads,
        h \in { <<"7">>, <<"0", "7">>, <<"0">>, <<"1", "2">>, <<"1", "3">>, <<"2", "4">> },
        sep \in { <<":">>, <<" ", ":", " ">>, <<":", "\t">>, <<>> },
        m \in { <<"3", "0">>, <<"0", "5">>, <<"5">>, <<"6", "0">> },
        p \in { <<>>, <<"a", "m">>, <<"p", "m">>, <<" ", "A", "M">>, <<"P", "m">>, <<"\t", "p", "m">>, <<"a">> } }
    \cup { <<>>, <<"x">> } \cup Pads

parse_date_call(x) ==
    /\ pc = "idle"
    /\ s' = x
    /\ result' = parse_date(x)
    /\ pc' = "date"
    /\ UNCHANGED <<raw, lines, i, key, val, parsed, errors, events, req, status>>

parse_time_call(x) ==
    /\ pc = "idle"
    /\ s' = x
    /\ result' = parse_time(x)
    /\ pc' = "time"
    /\ UNCHANGED <<raw, lines, i, key, val, parsed, errors, events, req, status>>

NextDate == pc = "idle" /\ \E x \in DateInputs : parse_date_call(x)

NextTime == pc = "idle" /\ \E x \in TimeInputs : parse_time_call(x)

SpecDate == Init /\ [][NextDate]_vars

SpecTime == Init /\ [][NextTime]_vars

(***************************************************************************)
(* create_event                                                            *)
(***************************************************************************)
\* x or None
OrNone(x) == IF x = <<>> THEN None ELSE Str(x)

\* parse_time(x) if x else None
TimeOrNone(x) == IF x = <<>> THEN None ELSE parse_time(x)

\* the row built from the form and the validated values
Event(id, form, start_dt, dog_bool, dist) ==
    [id |-> id,
     mountain_id |-> form.mountain_id,
     start_date |-> start_dt,
     arrive_time |-> TimeOrNone(form.arrive_time),
     hike_time |-> TimeOrNone(form.hike_time),
     trailhead |-> OrNone(form.trailhead),
     distance_miles |-> dist,
     pace |-> PaceMapping(Lower(Strip(form.pace)), Str(form.pace)),
     dog_friendly |-> dog_bool,
     fb_link |-> Str(form.fb_link),
     organizer |-> OrNone(form.organizer),
     notes |-> OrNone(form.notes)]

\* the forms posted to /events
Forms ==
    [mountain_id : {1},
     start_date : { <<"2", "0", "2", "3", "-", "2", "-", "9">>, <<"7", "/", "4">> },
     arrive_time : { <<>>, <<"7", ":", "3", "0", "a", "m">> },
     hike_time : { <<>> },
     trailhead : { <<>> },
     distance_miles : { <<"6", ".", "2">>, <<" ", "6", " ">>, <<"6", " ", "m">> },
     pace : { <<"b", "e", "a", "r">> },
     dog_friendly : { <<"Y", "e", "s">>, <<"n", "o">>, <<"y">> },
     fb_link : { <<"h", ":", "/", "/", "f">> },
     organizer : { <<"J", "a", "n", "e">> },
     notes : { <<>> }]

\* variant of create_event: the row is added before distance_miles is
\* converted, and the failed conversion still answers 400
create_event_lateCheck(form) ==
    /\ pc = "idle"
    /\ Len(events) < MaxEvents
    /\ req' = form
    /\ LET start_dt == parse_date(form.start_date)
           dog_bool == parse_dog(form.dog_friendly)
           dist == float(form.distance_miles)
       IN  IF start_dt = None THEN status' = 400 /\ events' = events
           ELSE IF dog_bool = None THEN status' = 400 /\ events' = events
           ELSE /\ events' = Append(events, Event(Len(events) + 1, form, start_dt, dog_bool, dist))
                /\ status' = IF dist = None THEN 400 ELSE 303
    /\ UNCHANGED <<pc, s, result, raw, lines, i, key, val, parsed, errors>>

\* the three checks, each answering 400, then the insert and the redirect
create_event(form) ==
    /\ pc = "idle"
    /\ Len(events) < MaxEvents
    /\ req' = form
    /\ LET start_dt == parse_date(form.start_date)
           dog_bool == parse_dog(form.dog_friendly)
           dist == float(form.distance_miles)
       IN  IF start_dt = None THEN status' = 400 /\ events' = events
           ELSE IF dog_bool = None THEN status' = 400 /\ events' = events
           ELSE IF dist = None THEN status' = 400 /\ events' = events
           ELSE /\ events' = Append(events, Event(Len(events) + 1, form, start_dt, dog_bool, dist))
                /\ status' = 303
    /\ UNCHANGED <<pc, s, result, raw, lines, i, key, val, parsed, errors>>

NextCreate == Len(events) < MaxEvents /\ \E form \in Forms : create_event(form)

SpecCreate == Init /\ [][NextCreate]_vars

(***************************************************************************)
(* Properties                                                              *)
(***************************************************************************)
Done == pc \in {"returned", "raised"}

\* the field the chain stores line j of the call under
FieldOfLine(j) == Classify(KeyOf(lines[j]))

\* line j is the last line of the call stored under field f
LastFor(f, j) ==
    /\ FieldOfLine(j) = f
    /\ \A k \in (j + 1)..Len(lines) : FieldOfLine(k) # f

ExtractedFields ==
    {"start_date", "arrive_time", "hike_time", "distance_miles", "pace", "dog_friendly"}

VerbatimFields == {"organizer", "mountain", "trailhead", "notes"}

FieldNames == ExtractedFields \cup VerbatimFields \cup {"fb_link"}

\* C1: parse_block is total: whatever the block, the call returns its pair
\* and no exception escapes.
C1_NoExceptionEscapes == pc # "raised"

\* C2: a field name in the returned ParsedFields always carries a value: a
\* field whose extractor yielded absence is absent, never present with None.
C2_AbsentWhenExtractorFails ==
    pc = "returned" => \A f \in DOMAIN parsed : parsed[f] # None

\* C2 (amended): in the returned ParsedFields a field of the date, time,
\* distance, pace or dog extractor is present exactly when some line was
\* classified to it, and when the extractor yields absence for the last such
\* line the field is present with the value None.
C2_PresentWithNone ==
    pc = "returned" =>
        /\ DOMAIN parsed \cap ExtractedFields
               = { FieldOfLine(j) : j \in 1..Len(lines) } \cap ExtractedFields
        /\ \A j \in 1..Len(lines) :
               LET f == FieldOfLine(j)
               IN  (/\ f \in ExtractedFields
                    /\ LastFor(f, j)
                    /\ Extract(f, ValOf(lines[j])) = None)
                       => f \in DOMAIN parsed /\ parsed[f] = None

C2_Witness ==
    /\ pc = "returned"
    /\ \E f \in ExtractedFields : f \in DOMAIN parsed /\ parsed[f] = None
    /\ \E f \in ExtractedFields : f \in DOMAIN parsed /\ parsed[f] # None

\* C3: most specific match wins: a line keyed 'start' populates start_date,
\* a line keyed 'start time' populates hike_time and not start_date.
C3_MostSpecificMatchWins ==
    pc = "returned" =>
        LET startTime == { j \in 1..Len(lines) : KeyOf(lines[j]) = <<"s", "t", "a", "r", "t", " ", "t", "i", "m", "e">> }
            otherStart == { j \in 1..Len(lines) :
                              /\ StartsWith(KeyOf(lines[j]), <<"s", "t", "a", "r", "t">>)
                              /\ ~StartsWith(KeyOf(lines[j]), <<"s", "t", "a", "r", "t", " ", "t", "i", "m", "e">>) }
        IN  /\ (\E j \in 1..Len(lines) : KeyOf(lines[j]) = <<"s", "t", "a", "r", "t">>)
                   => "start_date" \in DOMAIN parsed
            /\ startTime # {} => "hike_time" \in DOMAIN parsed
            /\ startTime # {} /\ otherStart = {} => "start_date" \notin DOMAIN parsed

\* C4: when several lines are classified to one field, the returned value of
\* the field is the one extracted from the last of them in input order.
C4_LastOccurrenceWins ==
    pc = "returned" =>
        \A j \in 1..Len(lines) :
            LET f == FieldOfLine(j)
            IN  f \in FieldNames /\ LastFor(f, j)
                    => f \in DOMAIN parsed /\ parsed[f] = Extract(f, ValOf(lines[j]))

C4_Witness ==
    /\ pc = "returned"
    /\ \E j \in 1..Len(lines) : \E k \in (j + 1)..Len(lines) :
           /\ FieldOfLine(j) = FieldOfLine(k)
           /\ FieldOfLine(k) \in DOMAIN parsed
           /\ LastFor(FieldOfLine(k), k)
           /\ Extract(FieldOfLine(j), ValOf(lines[j])) # parsed[FieldOfLine(k)]

\* C5: the FieldErrors mapping is empty after every line processed and on
\* return, whatever lines are unrecognized or unparseable.
C5_ErrorsAlwaysEmpty == DOMAIN errors = {}

C5_Witness ==
    /\ pc = "returned"
    /\ \E f \in DOMAIN parsed : parsed[f] = None
    /\ \E j \in 1..Len(lines) : FieldOfLine(j) = NoField
    /\ DOMAIN errors = {}

\* the prefixes a key is checked against
RecognizedPrefixes ==
    { <<"o", "r", "g", "a", "n", "i", "z", "e", "r">>, <<"m", "o", "u", "n", "t", "a", "i", "n">>, <<"s", "t", "a", "r", "t">>, <<"a", "r", "r", "i", "v", "e">>, <<"a", "r", "r", "i", "v", "a", "l">>, <<"m", "e", "e", "t">>,
      <<"m", "e", "e", "t", "u", "p">>, <<"h", "i", "k", "e">>, <<"s", "t", "a", "r", "t", " ", "t", "i", "m", "e">>, <<"b", "e", "g", "i", "n">>, <<"t", "r", "a", "i", "l", "h", "e", "a", "d">>, <<"d", "i", "s", "t", "a", "n", "c", "e">>,
      <<"p", "a", "c", "e">>, <<"d", "o", "g">>, <<"f", "b">>, <<"n", "o", "t", "e", "s">> }

\* a line with no colon, or whose key matches no recognized prefix
Ignorable(line) ==
    \/ \A k \in 1..Len(line) : line[k] # ":"
    \/ \A p \in RecognizedPrefixes : ~StartsWith(KeyOf(line), p)

RECURSIVE WithoutIgnorable(_)
WithoutIgnorable(ls) ==
    IF ls = <<>> THEN <<>>
    ELSE (IF Ignorable(Head(ls)) THEN <<>> ELSE <<Head(ls)>>)
             \o WithoutIgnorable(Tail(ls))

\* C6: lines without a colon or with an unrecognized key change nothing: the
\* outcome of the call is the outcome on the block without these lines, and
\* the call never fails on such a line.
C6_IgnorableLinesHaveNoEffect ==
    Done =>
        LET kept == WithoutIgnorable(SplitLines(raw))
            o == RunLines(StripColonLines(kept), EmptyDict)
        IN  /\ o.raised = (pc = "raised")
            /\ pc = "returned" => parsed = o.parsed
            /\ pc = "raised" => ~Ignorable(lines[i + 1])

C6_Witness ==
    /\ pc = "returned"
    /\ DOMAIN parsed # {}
    /\ \E j \in 1..Len(SplitLines(raw)) :
           LET l == SplitLines(raw)[j]
           IN  l # <<>> /\ Ignorable(l)

AllDigits(str) == \A k \in 1..Len(str) : str[k] \in Digit

\* the date named by year, month and day texts, None when it is no date of
\* the calendar
CalendarDate(y, m, d) ==
    IF /\ IntOf(y) >= 1
       /\ IntOf(m) \in 1..12
       /\ IntOf(d) >= 1
       /\ IntOf(d) <= DaysInMonth(IntOf(y), IntOf(m))
    THEN Date(IntOf(y), IntOf(m), IntOf(d))
    ELSE None

\* 4-digit year, '-', 2-digit month, '-', 2-digit day
FixedWidthDate(t) ==
    IF /\ Len(t) = 10
       /\ t[5] = "-"
       /\ t[8] = "-"
       /\ AllDigits(SubSeq(t, 1, 4))
       /\ AllDigits(SubSeq(t, 6, 7))
       /\ AllDigits(SubSeq(t, 9, 10))
    THEN CalendarDate(SubSeq(t, 1, 4), SubSeq(t, 6, 7), SubSeq(t, 9, 10))
    ELSE None

\* 4-digit year, '-', month of one or two digits, '-', day of one or two
\* digits or of a space and a non-zero digit
LenientDate(t) ==
    LET shapes ==
            { w \in (1..2) \X (1..2) :
                /\ Len(t) = 6 + w[1] + w[2]
                /\ t[5] = "-"
                /\ t[6 + w[1]] = "-"
                /\ AllDigits(SubSeq(t, 1, 4))
                /\ AllDigits(SubSeq(t, 6, 5 + w[1]))
                /\ LET d == SubSeq(t, 7 + w[1], Len(t))
                   IN  \/ AllDigits(d)
                       \/ Len(d) = 2 /\ d[1] = " " /\ d[2] \in Digit19 }
    IN  IF shapes = {} THEN None
        ELSE LET w == CHOOSE w \in shapes : TRUE
             IN  CalendarDate(SubSeq(t, 1, 4), SubSeq(t, 6, 5 + w[1]),
                              SubSeq(t, 7 + w[1], Len(t)))

\* C7: after stripping, parse_date returns the date exactly for the
\* fixed-width strings YYYY-MM-DD that name a calendar date, and None for
\* every other string, non-zero-padded forms included.
C7_FixedWidthOnly == pc = "date" => result = FixedWidthDate(Strip(s))

\* C7 (amended): after stripping, parse_date returns the date exactly for
\* the strings made of a 4-digit year from 0001 on, '-', a month of one or
\* two digits, '-', and a day of one or two digits or of a space and one
\* non-zero digit, that name a calendar date; it returns None for every
\* other string.
C7_LenientWidth == pc = "date" => result = LenientDate(Strip(s))

C7_Witness ==
    /\ pc = "date"
    /\ result # None
    /\ FixedWidthDate(Strip(s)) = None
    /\ Strip(s) # s

RECURSIVE RemoveWhitespace(_)
RemoveWhitespace(str) ==
    IF str = <<>> THEN <<>>
    ELSE IF Head(str) \in Whitespace THEN RemoveWhitespace(Tail(str))
    ELSE <<Head(str)>> \o RemoveWhitespace(Tail(str))

\* the time-of-day a text without blanks denotes: hours:minutes on the
\* 24-hour clock when there is no meridiem, on the 12-hour clock when
\* 'am' or 'pm' follows
ClockTime(t) ==
    LET k == FirstIn(t, {":"}, 1)
        h == SubSeq(t, 1, k - 1)
        rest == SubSeq(t, k + 1, Len(t))
        suffix == IF Len(rest) >= 2 THEN SubSeq(rest, Len(rest) - 1, Len(rest)) ELSE <<>>
        m == IF suffix \in { <<"a", "m">>, <<"p", "m">> }
             THEN SubSeq(rest, 1, Len(rest) - 2) ELSE rest
        wellFormed == /\ k # 0
                      /\ Len(h) \in 1..2 /\ AllDigits(h)
                      /\ Len(m) \in 1..2 /\ AllDigits(m)
                      /\ IntOf(m) <= 59
    IN  IF ~wellFormed THEN None
        ELSE IF m = rest
        THEN (IF IntOf(h) <= 23 THEN Time(IntOf(h), IntOf(m)) ELSE None)
        ELSE IF IntOf(h) \notin 1..12 THEN None
        ELSE IF suffix = <<"a", "m">> THEN Time(IntOf(h) % 12, IntOf(m))
        ELSE Time((IntOf(h) % 12) + 12, IntOf(m))

\* C8: parse_time returns None for blank input; otherwise it removes all
\* interior whitespace, lower-cases and reads the text by the first matching
\* format, a bare HH:MM always as 24-hour time.
C8_AllWhitespaceRemoved ==
    pc = "time" =>
        result = IF Strip(s) = <<>> THEN None
                 ELSE ClockTime(RemoveWhitespace(Lower(s)))

\* C8 (amended): parse_time returns None for blank input; otherwise it
\* strips the surrounding whitespace, removes the interior space characters
\* only (a tab or another whitespace character inside the text stays and
\* makes every format fail), lower-cases and reads the text by the first
\* matching format, a bare HH:MM always as 24-hour time.
C8_SpacesRemoved ==
    pc = "time" =>
        result = IF Strip(s) = <<>> THEN None
                 ELSE ClockTime(RemoveSpaces(Lower(Strip(s))))

C8_Witness ==
    /\ pc = "time"
    /\ result = Time(12, 30)
    /\ \E k \in 1..Len(Strip(s)) : Strip(s)[k] = " "

\* C9: a line is split at its first colon only: key is the trimmed,
\* lower-cased text before it, val the trimmed text after it with its casing
\* and further colons kept, and organizer, mountain, trailhead and notes
\* store val as it is.
C9_SplitOnFirstColon ==
    (pc = "raised" \/ (pc \in {"loop", "returned"} /\ i > 0)) =>
        LET line == IF pc = "raised" THEN lines[i + 1] ELSE lines[i]
        IN  /\ \E k \in 1..Len(line) :
                   /\ line[k] = ":"
                   /\ \A j \in 1..(k - 1) : line[j] # ":"
                   /\ key = Lower(Strip(SubSeq(line, 1, k - 1)))
                   /\ val = Strip(SubSeq(line, k + 1, Len(line)))
            /\ StartsWith(key, <<"n", "o", "t", "e", "s">>) => parsed["notes"] = Str(val)
            /\ StartsWith(key, <<"o", "r", "g", "a", "n", "i", "z", "e", "r">>) => parsed["organizer"] = Str(val)
            /\ StartsWith(key, <<"m", "o", "u", "n", "t", "a", "i", "n">>) => parsed["mountain"] = Str(val)
            /\ StartsWith(key, <<"t", "r", "a", "i", "l", "h", "e", "a", "d">>) => parsed["trailhead"] = Str(val)

C9_Witness ==
    /\ pc = "returned"
    /\ "notes" \in DOMAIN parsed
    /\ parsed["notes"] = Str(<<"a", ":", "B">>)
    /\ "arrive_time" \in DOMAIN parsed
    /\ parsed["arrive_time"] = Time(7, 30)

\* C10: create_event stores a row only when start_date parses, dog_friendly
\* is yes/no and distance_miles is numeric; otherwise it answers 400 and the
\* stored events are unchanged; a successful call adds exactly one event.
C10_StoresOnlyValidEvents ==
    [][LET valid == /\ parse_date(req'.start_date) # None
                    /\ parse_dog(req'.dog_friendly) # None
                    /\ float(req'.distance_miles) # None
       IN  /\ valid => /\ status' = 303
                       /\ Len(events') = Len(events) + 1
                       /\ SubSeq(events', 1, Len(events)) = events
           /\ ~valid => /\ status' = 400
                        /\ events' = events]_vars

C10_Witness ==
    /\ Len(events) = 1
    /\ status = 400

====
